---- MODULE Spec2Model ----
(***************************************************************************)
(* Model of src/src/App.jsx: the request builder (buildUrl), the component *)
(* state of App (mode, location, date, weatherData, isLoading, error), its *)
(* event handlers (handleModeChange, handleSubmit and the input onChange   *)
(* handlers) and the historical panel renderer.                            *)
(*                                                                         *)
(* Strings that are inspected character by character (location, date,     *)
(* the credential, the query string) are sequences of one-character        *)
(* strings.  Messages that are only stored and shown are TLA+ strings.     *)
(***************************************************************************)
EXTENDS Integers, Sequences, FiniteSets, TLC

VARIABLES
    API_KEY,      \* line 4: the credential read from the environment (<<>> when unset)
    mode,         \* line 33
    location,     \* line 34
    date,         \* line 35
    weatherData,  \* line 36
    isLoading,    \* line 37
    error,        \* line 38
    pending,      \* suspended handleSubmit calls (lines 68-82), oldest first
    origin,       \* the request whose settlement wrote what weatherData/error hold
    lastEvent,    \* the handler that ran last
    url           \* the value returned by a direct call of buildUrl (lines 12-30)

vars == <<API_KEY, mode, location, date, weatherData, isLoading, error,
          pending, origin, lastEvent, url>>

-----------------------------------------------------------------------------
(* Bounds *)

\* longest text typed into the location field (request cycle)
MaxTyped == 2
\* longest location handed to buildUrl (request builder)
MaxLocLen == 2
\* cap on the number of suspended handleSubmit calls
MaxPending == 2

-----------------------------------------------------------------------------
(* Character strings *)

RECURSIVE SeqsUpTo(_, _)
SeqsUpTo(S, n) ==
    IF n = 0 THEN {<<>>}
    ELSE LET shorter == SeqsUpTo(S, n - 1)
         IN  shorter \cup {Append(s, c) : s \in shorter, c \in S}

IsWhite(c) == c = " "

RECURSIVE TrimStart(_)
TrimStart(s) ==
    IF s # <<>> /\ IsWhite(Head(s)) THEN TrimStart(Tail(s)) ELSE s

RECURSIVE TrimEnd(_)
TrimEnd(s) ==
    IF s # <<>> /\ IsWhite(s[Len(s)]) THEN TrimEnd(SubSeq(s, 1, Len(s) - 1)) ELSE s

\* String.prototype.trim
Trim(s) == TrimEnd(TrimStart(s))

-----------------------------------------------------------------------------
(* Program constants *)

API_BASE_URL == "https://api.weatherstack.com"

CURRENT == "current"
HISTORICAL == "historical"
MARINE == "marine"
MODES == {CURRENT, HISTORICAL, MARINE}

K_access_key == <<"a","c","c","e","s","s","_","k","e","y">>
K_query == <<"q","u","e","r","y">>
K_historical_date == <<"h","i","s","t","o","r","i","c","a","l","_","d","a","t","e">>

MSG_MISSING_KEY ==
    "Missing API key. Please set VITE_WEATHERSTACK_API_KEY in your .env file."
MSG_NO_LOCATION == "Please enter a location (city name or \"lat,lon\")."
MSG_NO_DATE == "Please pick a historical date."
MSG_FETCH_FAILED == "Failed to fetch weather data."
MSG_WENT_WRONG == "Something went wrong while fetching weather data."

-----------------------------------------------------------------------------
(* URLSearchParams (lines 13-29) *)

\* characters the application/x-www-form-urlencoded serializer leaves alone
Unreserved ==
    {"a","b","c","d","e","f","g","h","i","j","k","l","m","n","o","p","q","r","s",
     "t","u","v","w","x","y","z",
     "A","B","C","D","E","F","G","H","I","J","K","L","M","N","O","P","Q","R","S",
     "T","U","V","W","X","Y","Z","0","1","2","3","4","5","6","7","8","9",
     "*","-",".","_"}

PercentCode(c) ==
    CASE c = "&" -> <<"%","2","6">>
      [] c = "=" -> <<"%","3","D">>
      [] c = "+" -> <<"%","2","B">>
      [] c = "%" -> <<"%","2","5">>
      [] c = "," -> <<"%","2","C">>
      [] c = "#" -> <<"%","2","3">>
      [] c = "?" -> <<"%","3","F">>
      [] OTHER   -> <<c>>

EncodeChar(c) ==
    IF c \in Unreserved THEN <<c>>
    ELSE IF c = " " THEN <<"+">>
    ELSE PercentCode(c)

RECURSIVE Encode(_)
Encode(s) ==
    IF s = <<>> THEN <<>> ELSE EncodeChar(Head(s)) \o Encode(Tail(s))

HasName(params, name) == \E i \in 1..Len(params) : params[i][1] = name

FirstIndex(params, name) ==
    CHOOSE i \in 1..Len(params) :
        /\ params[i][1] = name
        /\ \A j \in 1..(i - 1) : params[j][1] # name

RECURSIVE DropLater(_, _, _)
\* the pairs of params, without the pairs named name after position keep
DropLater(params, name, keep) ==
    IF params = <<>> THEN <<>>
    ELSE LET n == Len(params)
             front == DropLater(SubSeq(params, 1, n - 1), name, keep)
         IN  IF n > keep /\ params[n][1] = name THEN front
             ELSE Append(front, params[n])

\* URLSearchParams.prototype.set
ParamsSet(params, name, value) ==
    IF HasName(params, name)
    THEN LET i == FirstIndex(params, name)
         IN  DropLater([params EXCEPT ![i] = <<name, value>>], name, i)
    ELSE Append(params, <<name, value>>)

RECURSIVE ParamsToString(_)
\* URLSearchParams.prototype.toString
ParamsToString(params) ==
    IF params = <<>> THEN <<>>
    ELSE LET p == Head(params)
             one == Encode(p[1]) \o <<"=">> \o Encode(p[2])
         IN  IF Tail(params) = <<>> THEN one
             ELSE one \o <<"&">> \o ParamsToString(Tail(params))

-----------------------------------------------------------------------------
(* buildUrl (lines 12-30) *)

\* a template literal `${API_BASE_URL}/<endpoint>?${params.toString()}`
Url(endpoint, params) ==
    [origin |-> API_BASE_URL, path |-> endpoint, search |-> ParamsToString(params)]

NoUrl == [origin |-> "", path |-> "", search |-> <<>>]

\* a builder that adds historical_date whenever a date is given
buildUrlAnyMode(key, m, loc, d) ==
    LET p0 == ParamsSet(<<>>, K_access_key, key)
        p1 == ParamsSet(p0, K_query, loc)
        p2 == IF d # <<>> THEN ParamsSet(p1, K_historical_date, d) ELSE p1
    IN  Url(IF m = MARINE THEN "/marine"
            ELSE IF m = HISTORICAL THEN "/historical" ELSE "/current", p2)

buildUrlFor(key, m, loc, d) ==
    LET p0 == ParamsSet(<<>>, K_access_key, key)   \* API_KEY || ''
    IN  IF m = MARINE
        THEN Url("/marine", ParamsSet(p0, K_query, loc))
        ELSE LET p1 == ParamsSet(p0, K_query, loc)
                 p2 == IF m = HISTORICAL /\ d # <<>>
                       THEN ParamsSet(p1, K_historical_date, d)
                       ELSE p1
                 endpoint == IF m = HISTORICAL THEN "/historical" ELSE "/current"
             IN  Url(endpoint, p2)

buildUrl(m, loc, d) == buildUrlFor(API_KEY, m, loc, d)

-----------------------------------------------------------------------------
(* The upstream API, as seen through fetch and res.json() (lines 70-71) *)

NULL == [json |-> "nothing"]

\* messages carried by the failures of fetch and of res.json()
FetchErrors == {"Failed to fetch", ""}
ParseErrors == {"Unexpected token < in JSON at position 0"}
\* reading a property of null (json.error with json = null)
MSG_NULL_DEREF == "Cannot read properties of null (reading 'error')"
\* error.info strings of the upstream API
InfoMsgs == {"invalid access key"}

NullBody ==
    [json |-> "null", error |-> "absent", info |-> "", kind |-> "none", histKey |-> <<>>]

\* the data document the endpoint of the request answers with: its sub-document
\* (current, historical keyed by the requested date, or marine)
DataBodies(frame) ==
    {[json |-> "object", error |-> e, info |-> "",
      kind |-> frame.mode, histKey |-> IF frame.mode = HISTORICAL THEN frame.date ELSE <<>>]
        : e \in {"absent", "falsy"}}

\* a body with a truthy error field, with error.info (i) or without it ("")
ErrorBodies ==
    {[json |-> "object", error |-> "truthy", info |-> i, kind |-> "none", histKey |-> <<>>]
        : i \in InfoMsgs \cup {""}}

Bodies(frame) == {NullBody} \cup DataBodies(frame) \cup ErrorBodies

-----------------------------------------------------------------------------
(* Component state and events *)

Keys == {<<>>, <<"k">>}

D1 == <<"2","0","2","4","-","0","1","-","0","1">>
D2 == <<"2","0","2","4","-","0","1","-","0","2">>
DateInputs == {<<>>, D1, D2}

London == <<"L","o","n","d","o","n">>
NewYork == <<"N","e","w"," ","Y","o","r","k">>
Tokyo == <<"T","o","k","y","o">>
Sydney == <<"S","y","d","n","e","y">>
\* line 255
QuickLocations == {London, NewYork, Tokyo, Sydney}
LocationInputs == SeqsUpTo({" ", "a"}, MaxTyped) \cup QuickLocations

NoOrigin == [mode |-> "none", date |-> <<>>]

Event(type) ==
    [type |-> type, via |-> "", ok |-> FALSE, body |-> NULL, msg |-> ""]

SettleEvent(via, ok, body, msg) ==
    [type |-> "settle", via |-> via, ok |-> ok, body |-> body, msg |-> msg]

Remove(seq, i) == SubSeq(seq, 1, i - 1) \o SubSeq(seq, i + 1, Len(seq))

Init ==
    /\ API_KEY \in Keys
    /\ mode = CURRENT
    /\ location = <<>>
    /\ date = <<>>
    /\ weatherData = NULL
    /\ isLoading = FALSE
    /\ error = ""
    /\ pending = <<>>
    /\ origin = NoOrigin
    /\ lastEvent = Event("mount")
    /\ url = NoUrl

\* lines 232 and 260: the location field's onChange and the quick-location chips
SetLocation(v) ==
    /\ location' = v
    /\ lastEvent' = Event("input")
    /\ UNCHANGED <<API_KEY, mode, date, weatherData, isLoading, error, pending, origin, url>>

\* lines 240-249: the date field exists in historical mode only
SetDate(v) ==
    /\ mode = HISTORICAL
    /\ date' = v
    /\ lastEvent' = Event("input")
    /\ UNCHANGED <<API_KEY, mode, location, weatherData, isLoading, error, pending, origin, url>>

\* a mode switch that forgets to clear the error
handleModeChangeKeepError(nextMode) ==
    /\ mode' = nextMode
    /\ weatherData' = NULL
    /\ origin' = IF error = "" THEN NoOrigin ELSE origin
    /\ lastEvent' = Event("modeChange")
    /\ UNCHANGED <<API_KEY, location, date, isLoading, error, pending, url>>

\* lines 40-44
handleModeChange(nextMode) ==
    /\ mode' = nextMode
    /\ weatherData' = NULL
    /\ error' = ""
    /\ origin' = NoOrigin
    /\ lastEvent' = Event("modeChange")
    /\ UNCHANGED <<API_KEY, location, date, isLoading, pending, url>>

SubmitAlwaysEnabled == TRUE

\* lines 268-270: the submit button is disabled while isLoading
SubmitEnabled == ~isLoading

\* lines 49-62: a guard failure stores a message and returns
Reject(message) ==
    /\ error' = message
    /\ origin' = IF weatherData = NULL THEN NoOrigin ELSE origin
    /\ UNCHANGED <<weatherData, isLoading, pending>>

\* lines 64-70: the request is issued and the handler suspends at await fetch(url)
Accept ==
    /\ Len(pending) < MaxPending
    /\ isLoading' = TRUE
    /\ error' = ""
    /\ weatherData' = NULL
    /\ origin' = NoOrigin
    /\ pending' = Append(pending,
            [mode |-> mode, date |-> date, url |-> buildUrl(mode, Trim(location), date),
             stage |-> "fetch", ok |-> FALSE])

\* a submit handler without the location guard
handleSubmitNoLocationGuard ==
    /\ SubmitEnabled
    /\ lastEvent' = Event("submit")
    /\ IF API_KEY = <<>> THEN Reject(MSG_MISSING_KEY)
       ELSE IF mode = HISTORICAL /\ date = <<>> THEN Reject(MSG_NO_DATE)
       ELSE Accept
    /\ UNCHANGED <<API_KEY, mode, location, date, url>>

\* lines 46-70
handleSubmit ==
    /\ SubmitEnabled
    /\ lastEvent' = Event("submit")
    /\ IF API_KEY = <<>> THEN Reject(MSG_MISSING_KEY)
       ELSE IF Trim(location) = <<>> THEN Reject(MSG_NO_LOCATION)
       ELSE IF mode = HISTORICAL /\ date = <<>> THEN Reject(MSG_NO_DATE)
       ELSE Accept
    /\ UNCHANGED <<API_KEY, mode, location, date, url>>

\* line 70: fetch resolves with a response whose ok flag is given
FetchResolves(i, ok) ==
    /\ i \in 1..Len(pending)
    /\ pending[i].stage = "fetch"
    /\ pending' = [pending EXCEPT ![i].stage = "json", ![i].ok = ok]
    /\ lastEvent' = Event("response")
    /\ UNCHANGED <<API_KEY, mode, location, date, weatherData, isLoading, error, origin, url>>

\* a catch clause that always stores the generic message
CatchFinallyGeneric(i, message, ev) ==
    /\ error' = MSG_WENT_WRONG
    /\ isLoading' = FALSE
    /\ pending' = Remove(pending, i)
    /\ origin' = [mode |-> pending[i].mode, date |-> pending[i].date]
    /\ lastEvent' = ev
    /\ UNCHANGED <<API_KEY, mode, location, date, weatherData, url>>

\* lines 78-82: catch stores err.message (or the generic message), finally ends loading
CatchFinally(i, message, ev) ==
    /\ error' = IF message # "" THEN message ELSE MSG_WENT_WRONG
    /\ isLoading' = FALSE
    /\ pending' = Remove(pending, i)
    /\ origin' = [mode |-> pending[i].mode, date |-> pending[i].date]
    /\ lastEvent' = ev
    /\ UNCHANGED <<API_KEY, mode, location, date, weatherData, url>>

\* line 70: fetch rejects
FetchRejects(i, message) ==
    /\ i \in 1..Len(pending)
    /\ pending[i].stage = "fetch"
    /\ CatchFinally(i, message, SettleEvent("fetchReject", FALSE, NULL, message))

\* line 71: res.json() rejects
JsonRejects(i, message) ==
    /\ i \in 1..Len(pending)
    /\ pending[i].stage = "json"
    /\ CatchFinally(i, message, SettleEvent("jsonReject", pending[i].ok, NULL, message))

\* a validation that looks at the status only
ResponseRejectedStatusOnly(ok, body) == ~ok

\* line 73: !res.ok || json.error, for a body that is not null
ResponseRejected(ok, body) == ~ok \/ body.error = "truthy"

\* line 74: json.error?.info || 'Failed to fetch weather data.'
UpstreamMessage(body) ==
    IF body.error = "truthy" /\ body.info # "" THEN body.info ELSE MSG_FETCH_FAILED

\* lines 71-82: res.json() resolves with body
JsonResolves(i, body) ==
    /\ i \in 1..Len(pending)
    /\ pending[i].stage = "json"
    /\ body \in Bodies(pending[i])
    /\ LET ok == pending[i].ok
           ev == SettleEvent("body", ok, body, "")
       IN  IF body.json = "null"
           THEN \* json.error throws a TypeError (line 73 when ok, line 74 otherwise)
                CatchFinally(i, MSG_NULL_DEREF, ev)
           ELSE IF ResponseRejected(ok, body)
           THEN CatchFinally(i, UpstreamMessage(body), ev)
           ELSE /\ weatherData' = body
                /\ isLoading' = FALSE
                /\ pending' = Remove(pending, i)
                /\ origin' = [mode |-> pending[i].mode, date |-> pending[i].date]
                /\ lastEvent' = ev
                /\ UNCHANGED <<API_KEY, mode, location, date, error, url>>

-----------------------------------------------------------------------------
(* Panel renderer (lines 85-186) *)

NoPanel == [panel |-> "none", key |-> <<>>, label |-> <<>>]

\* line 114: weatherData.historical[date], and line 123: the date label
HistoricalLookupKey == date

\* lines 85-109
renderCurrent ==
    IF weatherData = NULL \/ weatherData.kind # CURRENT THEN NoPanel
    ELSE [panel |-> "current", key |-> <<>>, label |-> <<>>]

\* lines 111-144
renderHistorical ==
    IF weatherData = NULL \/ weatherData.kind # HISTORICAL THEN NoPanel
    ELSE IF weatherData.histKey # HistoricalLookupKey THEN NoPanel
    ELSE [panel |-> "historical", key |-> HistoricalLookupKey, label |-> date]

\* lines 146-178
renderMarine ==
    IF weatherData = NULL \/ weatherData.kind # MARINE THEN NoPanel
    ELSE [panel |-> "marine", key |-> <<>>, label |-> <<>>]

\* lines 180-186
renderPanel ==
    IF weatherData = NULL THEN NoPanel
    ELSE IF mode = CURRENT THEN renderCurrent
    ELSE IF mode = HISTORICAL THEN renderHistorical
    ELSE IF mode = MARINE THEN renderMarine
    ELSE NoPanel

Next ==
    \/ \E v \in LocationInputs : SetLocation(v)
    \/ \E v \in DateInputs : SetDate(v)
    \/ \E m \in MODES : handleModeChange(m)
    \/ handleSubmit
    \/ \E i \in DOMAIN pending, ok \in BOOLEAN : FetchResolves(i, ok)
    \/ \E i \in DOMAIN pending, message \in FetchErrors : FetchRejects(i, message)
    \/ \E i \in DOMAIN pending, message \in ParseErrors : JsonRejects(i, message)
    \/ \E i \in DOMAIN pending : \E body \in Bodies(pending[i]) : JsonResolves(i, body)

Spec == Init /\ [][Next]_vars

-----------------------------------------------------------------------------
(* The request builder on its own: buildUrl applied to arbitrary arguments *)

UrlAlphabet == {"a", " ", "&", "=", "+", "%", ","}
UrlKeys == {<<>>, <<"k">>, <<"&">>}
UrlLocations == SeqsUpTo(UrlAlphabet, MaxLocLen) \ {<<>>}
UrlDates == SeqsUpTo(UrlAlphabet, 1) \cup {D1}

InitBuildUrl ==
    /\ API_KEY \in UrlKeys
    /\ mode \in MODES
    /\ location \in UrlLocations
    /\ date \in UrlDates
    /\ weatherData = NULL
    /\ isLoading = FALSE
    /\ error = ""
    /\ pending = <<>>
    /\ origin = NoOrigin
    /\ lastEvent = Event("mount")
    /\ url = NoUrl

CallBuildUrl ==
    /\ url = NoUrl
    /\ url' = buildUrl(mode, location, date)
    /\ UNCHANGED <<API_KEY, mode, location, date, weatherData, isLoading, error,
                   pending, origin, lastEvent>>

NextBuildUrl == CallBuildUrl

SpecBuildUrl == InitBuildUrl /\ [][NextBuildUrl]_vars

-----------------------------------------------------------------------------
(* Reading a query string back, as the receiver of the URL does *)

RECURSIVE SplitOn(_, _)
SplitOn(s, sep) ==
    IF \A i \in DOMAIN s : s[i] # sep THEN <<s>>
    ELSE LET k == CHOOSE i \in DOMAIN s : s[i] = sep /\ \A j \in 1..(i - 1) : s[j] # sep
         IN  <<SubSeq(s, 1, k - 1)>> \o SplitOn(SubSeq(s, k + 1, Len(s)), sep)

Escaped == {"&", "=", "+", "%", ",", "#", "?"}

RECURSIVE Decode(_)
Decode(s) ==
    IF s = <<>> THEN <<>>
    ELSE IF Head(s) = "+" THEN <<" ">> \o Decode(Tail(s))
    ELSE IF Head(s) = "%" /\ Len(s) >= 3
            /\ \E c \in Escaped : PercentCode(c) = SubSeq(s, 1, 3)
         THEN <<CHOOSE c \in Escaped : PercentCode(c) = SubSeq(s, 1, 3)>>
                  \o Decode(SubSeq(s, 4, Len(s)))
    ELSE <<Head(s)>> \o Decode(Tail(s))

ParsePair(seg) ==
    LET parts == SplitOn(seg, "=")
        name == parts[1]
        value == IF Len(parts) = 1 THEN <<>>
                 ELSE SubSeq(seg, Len(name) + 2, Len(seg))
    IN  <<Decode(name), Decode(value)>>

ParseSearch(search) ==
    LET segs == SelectSeq(SplitOn(search, "&"), LAMBDA g : g # <<>>)
    IN  [i \in DOMAIN segs |-> ParsePair(segs[i])]

ValuesOf(ps, name) == SelectSeq(ps, LAMBDA p : p[1] = name)

PathOfMode(m) ==
    CASE m = CURRENT -> "/current"
      [] m = HISTORICAL -> "/historical"
      [] m = MARINE -> "/marine"

-----------------------------------------------------------------------------
(* Claims *)

\* C8: for every mode, non-empty location and date, the URL buildUrl returns has
\* the path of the mode's endpoint, exactly one access_key parameter, exactly one
\* query parameter, equal to the location, and a historical_date parameter (equal
\* to the date) if and only if the mode is historical and the date is non-empty.
C8_BuildUrlShape ==
    url # NoUrl =>
        LET ps == ParseSearch(url.search)
            hd == ValuesOf(ps, K_historical_date)
        IN  /\ url.origin = API_BASE_URL
            /\ url.path = PathOfMode(mode)
            /\ Len(ValuesOf(ps, K_access_key)) = 1
            /\ ValuesOf(ps, K_query) = <<(<<K_query, location>>)>>
            /\ IF mode = HISTORICAL /\ date # <<>>
               THEN hd = <<(<<K_historical_date, date>>)>>
               ELSE hd = <<>>

C8_Witness ==
    /\ url # NoUrl
    /\ mode = HISTORICAL
    /\ date = D1
    /\ \E i \in DOMAIN location : location[i] = "&"
    /\ Len(ValuesOf(ParseSearch(url.search), K_historical_date)) = 1


-----------------------------------------------------------------------------
(* Claims about the request cycle *)

Settled == lastEvent.type = "settle"

\* a submission guard fails: no credential, a blank location, or historical
\* mode without a date
GuardFails ==
    \/ API_KEY = <<>>
    \/ \A i \in DOMAIN location : location[i] = " "
    \/ mode = HISTORICAL /\ date = <<>>

\* C1: whenever a non-empty error message is stored, weatherData is null.
C1_ErrorExcludesResult == error # "" => weatherData = NULL

\* C2: after a submission that fails a client-side guard, no request has been
\* issued, isLoading is false and a non-empty error message is stored.
C2_GuardFailure ==
    (lastEvent.type = "submit" /\ GuardFails) =>
        /\ pending = <<>>
        /\ ~isLoading
        /\ error # ""

C2_Witness ==
    /\ lastEvent.type = "submit"
    /\ API_KEY # <<>>
    /\ location = <<" ", " ">>
    /\ error = MSG_NO_LOCATION
    /\ pending = <<>>

\* C3: at most one request is pending, and isLoading is true exactly when a
\* request is pending.
C3_OnePending ==
    /\ Len(pending) <= 1
    /\ isLoading <=> Len(pending) = 1

C3_Witness ==
    /\ isLoading
    /\ Len(pending) = 1
    /\ pending[1].stage = "json"
    /\ lastEvent.type = "modeChange"

\* C4: right after handleModeChange has run, weatherData is null and error is
\* empty.
C4_ModeChangeClears ==
    lastEvent.type = "modeChange" => (weatherData = NULL /\ error = "")

C4_Witness ==
    /\ lastEvent.type = "modeChange"
    /\ isLoading
    /\ mode = MARINE

Success(body) == weatherData = body /\ error = ""
Failed == error # "" /\ weatherData = NULL

\* C5 as stated: a request settles as Success if and only if the status is 2xx,
\* the body parses as JSON and the body has no error field, and as Failed in
\* every other case; isLoading is false afterwards.
C5_SuccessIffNoErrorField ==
    Settled =>
        /\ ~isLoading
        /\ IF lastEvent.via = "body" /\ lastEvent.ok /\ lastEvent.body.error = "absent"
           THEN Success(lastEvent.body)
           ELSE Failed

\* C5 as amended: a request settles as Success if and only if the status is 2xx,
\* the body parses as JSON to a value other than null and its error field is
\* absent or falsy, and as Failed in every other case; isLoading is false
\* afterwards.
C5_SuccessIffNoTruthyError ==
    Settled =>
        /\ ~isLoading
        /\ IF /\ lastEvent.via = "body"
              /\ lastEvent.ok
              /\ lastEvent.body.json # "null"
              /\ lastEvent.body.error # "truthy"
           THEN Success(lastEvent.body)
           ELSE Failed

C5_Witness ==
    /\ Settled
    /\ lastEvent.via = "body"
    /\ lastEvent.ok
    /\ lastEvent.body.json = "null"
    /\ Failed

\* C6: when a parsed response is rejected for its status or its error field, the
\* stored message is the body's error.info when present and the generic
\* fallback message otherwise.
C6_UpstreamMessage ==
    (Settled /\ lastEvent.via = "body"
        /\ (~lastEvent.ok \/ lastEvent.body.error = "truthy")) =>
        error = IF lastEvent.body.info # "" THEN lastEvent.body.info
                ELSE MSG_FETCH_FAILED

\* C7 as stated: after a transport failure or an unparsable body the stored
\* message is the generic fallback message, whatever the failure's message.
C7_GenericMessage ==
    (Settled /\ lastEvent.via \in {"fetchReject", "jsonReject"}) =>
        error \in {MSG_WENT_WRONG, MSG_FETCH_FAILED}

\* C7 as amended: after a transport failure or an unparsable body the stored
\* message is the failure's own message when that is non-empty, and the generic
\* fallback message only when it is empty.
C7_FailureMessage ==
    (Settled /\ lastEvent.via \in {"fetchReject", "jsonReject"}) =>
        error = IF lastEvent.msg # "" THEN lastEvent.msg ELSE MSG_WENT_WRONG

C7_Witness ==
    /\ Settled
    /\ lastEvent.via = "fetchReject"
    /\ lastEvent.msg = ""
    /\ error = MSG_WENT_WRONG

\* C9: whatever a request has stored belongs to a request built for the selected
\* mode, and right after a mode switch no request is loading.
C9_ModeSwitchDiscards ==
    /\ origin.mode # "none" => origin.mode = mode
    /\ lastEvent.type = "modeChange" => ~isLoading

\* C10: in historical mode, the panel looks up and labels the stored result by
\* the date that was sent in the request that produced it.
C10_LookupBySentDate ==
    (mode = HISTORICAL /\ weatherData # NULL /\ origin.mode = HISTORICAL) =>
        HistoricalLookupKey = origin.date

====
